---- MODULE Spec2Model ----
(***************************************************************************)
(* The catalog list page (frontend/src/pages/CatalogList.tsx) and the      *)
(* helpers of lib/catalog it uses, as a state machine.                     *)
(*                                                                         *)
(* A text (a JavaScript string) is a sequence of symbols.  A symbol is a   *)
(* comma, a blank, a minus sign, a decimal digit, or a word: a word stands *)
(* for a run of characters that holds none of the former ("tools", "abc"). *)
(* A value that may be null (URLSearchParams.get) is a sequence of length  *)
(* 0 (null) or 1 (the text).  A query string is the URLSearchParams it     *)
(* serialises: a function from the parameter names to such values; the     *)
(* percent-encoding of URLSearchParams.toString and its inverse in         *)
(* new URLSearchParams(...) are the browser's and are not modelled.        *)
(*                                                                         *)
(* React runs the effects of a render, in the order of their declaration,  *)
(* before it handles the next state update; the state updates the effects  *)
(* queue are applied together afterwards.  EffectsPass is one such run.    *)
(*                                                                         *)
(* The page keeps two request lanes that share nothing but the search text *)
(* and the filter sets they read: the list lane (loadCatalog) and the      *)
(* vocabulary lane (loadFilters, which writes filters alone).  Spec        *)
(* follows the list lane from a few URLs and leaves the vocabulary lane    *)
(* where it is; VocabularySpec follows both lanes together over fewer      *)
(* URLs; ScenarioSpec starts the list lane on its fourth page.  The detail *)
(* panel of App.tsx (selectedId, selectedItem, detailLoading) is a lane of *)
(* its own, followed by DetailSpec.                                        *)
(*                                                                         *)
(* The router renders the list page or the detail page of an entry         *)
(* (pages/CatalogDetail).  NavigationSpec follows the list lane together   *)
(* with the detail Link, the back Link and changes of the address bar;     *)
(* DetailPageSpec follows the detail page's own loader; DecodeSpec opens   *)
(* the list page over the values a hand-edited URL can give it.            *)
(***************************************************************************)
EXTENDS Integers, Sequences, FiniteSets, TLC

VARIABLES
    search,            \* useState: the search box's text
    activeFilters,     \* useState: filter key -> array of selected values
    page,              \* useState
    pageSize,          \* useState
    sort,              \* useState
    order,             \* useState
    catalog,           \* useState: the displayed CatalogResponse
    loading,           \* useState
    error,             \* useState: "" or the failure message
    didInitPageReset,  \* useRef: the page-reset effect has run once
    locationSearch,    \* the address bar's query (location.search), parsed
    mounted,           \* the effects of the first render have run
    deps,              \* the dependency values of the last effects run
    inflight,          \* list requests awaiting their response, oldest first
    catalogFor,        \* history: the query string the displayed catalog answers
    lastEvent,         \* history: the last user event or response handled
    fired,             \* history: the effects that called setPage in the last run
    userActions,       \* history: the number of user events so far
    filters,           \* useState: the filter vocabulary (FilterOptions)
    filtersInflight,   \* vocabulary requests awaiting their response
    filtersDeps,       \* the dependency value of loadFilters' last run
    selectedId,        \* App.tsx useState: the selected identifier or null
    selectedItem,      \* App.tsx useState: the detail slot
    detailLoading,     \* App.tsx useState
    detailInflight,    \* detail requests awaiting their response
    detailDeps,        \* the dependency value of loadDetail's last run
    route,             \* the page the router renders: "list" or "detail"
    fromState,         \* location.state.from of the detail page, or null
    historyEntries,    \* the number of navigation history entries
    openedFrom,        \* the query string the last detail view was opened from
    entryId,           \* CatalogDetailPage useParams: the route's identifier
    detail,            \* CatalogDetailPage useState: the detail slot
    detailPageLoading, \* CatalogDetailPage useState: loading
    detailError,       \* CatalogDetailPage useState: error
    detailPageInflight, \* CatalogDetailPage requests awaiting their response
    detailPageDeps     \* the dependency value of its loadDetail's last run

vocabularyVars == <<filters, filtersInflight, filtersDeps>>

detailVars == <<selectedId, selectedItem, detailLoading, detailInflight, detailDeps>>

navigationVars == <<route, fromState, historyEntries, openedFrom>>

detailPageVars == <<entryId, detail, detailPageLoading, detailError,
                    detailPageInflight, detailPageDeps>>

vars == <<search, activeFilters, page, pageSize, sort, order, catalog, loading,
          error, didInitPageReset, locationSearch, mounted, deps, inflight,
          catalogFor, lastEvent, fired, userActions, vocabularyVars, detailVars, navigationVars, detailPageVars>>

-----------------------------------------------------------------------------
(* Bounds of the model *)

\* user events in one behaviour
MaxUserActions == 2
\* list requests in flight at once
MaxInFlight == 2
\* user events in one behaviour that follows the vocabulary lane as well
MaxVocabularyActions == 1
\* clicks on the detail buttons in one behaviour
MaxSelections == 3

-----------------------------------------------------------------------------
(* Texts *)

Null == <<>>
Some(text) == <<text>>

Digits == <<"0", "1", "2", "3", "4", "5", "6", "7", "8", "9">>
IsDigit(c) == \E i \in 1..10 : Digits[i] = c
DigitValue(c) == (CHOOSE i \in 1..10 : Digits[i] = c) - 1

Min(a, b) == IF a < b THEN a ELSE b
Max(a, b) == IF a > b THEN a ELSE b

\* String.prototype.trim
RECURSIVE Trim(_)
Trim(t) ==
    IF t = <<>> THEN t
    ELSE IF Head(t) = " " THEN Trim(Tail(t))
    ELSE IF t[Len(t)] = " " THEN Trim(SubSeq(t, 1, Len(t) - 1))
    ELSE t

\* String.prototype.split(',')
RECURSIVE SplitComma(_)
SplitComma(t) ==
    IF \E i \in 1..Len(t) : t[i] = ","
    THEN LET i == CHOOSE j \in 1..Len(t) :
                      t[j] = "," /\ \A k \in 1..(j - 1) : t[k] # ","
         IN  <<SubSeq(t, 1, i - 1)>> \o SplitComma(SubSeq(t, i + 1, Len(t)))
    ELSE <<t>>

\* Array.prototype.join(',')
RECURSIVE JoinComma(_)
JoinComma(values) ==
    IF values = <<>> THEN <<>>
    ELSE IF Len(values) = 1 THEN values[1]
    ELSE values[1] \o <<",">> \o JoinComma(Tail(values))

RECURSIVE DigitsValue(_)
DigitsValue(t) ==
    IF t = <<>> THEN 0
    ELSE 10 * DigitsValue(SubSeq(t, 1, Len(t) - 1)) + DigitValue(t[Len(t)])

IsDigits(t) == t # <<>> /\ \A i \in 1..Len(t) : IsDigit(t[i])

\* Number(text) is NaN.  Number trims the text; the empty text is 0; an
\* optionally signed run of digits is its value.  (The texts of the model hold
\* no decimal point, exponent or radix prefix.)
NumberIsNaN(text) ==
    LET t == Trim(text)
    IN  ~ \/ t = <<>>
          \/ IsDigits(t)
          \/ (Head(t) = "-" /\ IsDigits(Tail(t)))

\* Number(text), for a text where it is not NaN
NumberValue(text) ==
    LET t == Trim(text)
    IN  IF t = <<>> THEN 0
        ELSE IF Head(t) = "-" THEN 0 - DigitsValue(Tail(t))
        ELSE DigitsValue(t)

\* String(n) for an integer n
RECURSIVE NatString(_)
NatString(n) ==
    IF n < 10 THEN <<Digits[n + 1]>>
    ELSE NatString(n \div 10) \o <<Digits[(n % 10) + 1]>>

String(n) == IF n < 0 THEN <<"-">> \o NatString(0 - n) ELSE NatString(n)

\* Array.prototype.filter over a sequence
RECURSIVE SelectNonEmpty(_)
SelectNonEmpty(values) ==
    IF values = <<>> THEN <<>>
    ELSE IF Head(values) # <<>>
         THEN <<Head(values)>> \o SelectNonEmpty(Tail(values))
         ELSE SelectNonEmpty(Tail(values))

RECURSIVE Without(_, _)
Without(values, v) ==
    IF values = <<>> THEN <<>>
    ELSE IF Head(values) = v THEN Without(Tail(values), v)
    ELSE <<Head(values)>> \o Without(Tail(values), v)

Contains(values, v) == \E i \in 1..Len(values) : values[i] = v

\* Array.from(new Set(values)): the first occurrence of each value, in order
RECURSIVE Distinct(_)
Distinct(values) ==
    IF values = <<>> THEN <<>>
    ELSE LET init == Distinct(SubSeq(values, 1, Len(values) - 1))
             v == values[Len(values)]
         IN  IF Contains(init, v) THEN init ELSE Append(init, v)

-----------------------------------------------------------------------------
(* lib/catalog *)

FilterKeys == {"categories", "platforms", "licenses", "statuses", "types", "languages"}

ParamKeys == {"q", "category", "platform", "license", "status", "type",
              "language", "page", "page_size", "sort", "order"}

\* the URL parameter of a filter key
ParamOf(key) ==
    CASE key = "categories" -> "category"
      [] key = "platforms"  -> "platform"
      [] key = "licenses"   -> "license"
      [] key = "statuses"   -> "status"
      [] key = "types"      -> "type"
      [] key = "languages"  -> "language"

initialActiveFilters == [key \in FilterKeys |-> <<>>]

\* Number.MAX_SAFE_INTEGER is 9007199254740991; the model checker's integers
\* end at 2147483647, and no number of the model comes near either.
MAX_SAFE_INTEGER == 2147483647

\* parseNumberParam's default min, and the arguments of its two calls
DefaultMin == 1
PageFallback == 1
PageSizeFallback == 24
PageSizeMin == 1
PageSizeMax == 48

parseListParam(value) ==
    IF value = Null \/ value[1] = <<>> THEN <<>>
    ELSE LET parts == SplitComma(value[1])
         IN  SelectNonEmpty([i \in 1..Len(parts) |-> Trim(parts[i])])

\* parseNumberParam without the Math.min of its last line
parseNumberParamNoMax(value, fallback, min, max) ==
    IF value = Null \/ value[1] = <<>> THEN fallback
    ELSE IF NumberIsNaN(value[1]) THEN fallback
    ELSE Max(NumberValue(value[1]), min)

parseNumberParam(value, fallback, min, max) ==
    IF value = Null \/ value[1] = <<>> THEN fallback
    ELSE IF NumberIsNaN(value[1]) THEN fallback
    ELSE Min(Max(NumberValue(value[1]), min), max)

\* resolveSortParam comparing the trimmed value
resolveSortParamTrimming(value) ==
    IF value # Null /\ Trim(value[1]) = <<"releaseDate">>
    THEN "releaseDate" ELSE "name"

resolveSortParam(value) ==
    IF value = Some(<<"releaseDate">>) THEN "releaseDate" ELSE "name"

resolveOrderParam(value) ==
    IF value = Some(<<"desc">>) THEN "desc" ELSE "asc"

toQueryParam(values) == JoinComma(values)

-----------------------------------------------------------------------------
(* CatalogListPage: state *)

\* The useState initialisers: the state hydrated from the URL's query
InitialState(params) ==
    [ search        |-> IF params["q"] = Null THEN <<>> ELSE params["q"][1],
      activeFilters |-> [key \in FilterKeys |-> parseListParam(params[ParamOf(key)])],
      page          |-> parseNumberParam(params["page"], PageFallback,
                                         DefaultMin, MAX_SAFE_INTEGER),
      pageSize      |-> parseNumberParam(params["page_size"], PageSizeFallback,
                                         PageSizeMin, PageSizeMax),
      sort          |-> resolveSortParam(params["sort"]),
      order         |-> resolveOrderParam(params["order"]) ]

QueryState ==
    [ search |-> search, activeFilters |-> activeFilters, page |-> page,
      pageSize |-> pageSize, sort |-> sort, order |-> order ]

InitialCatalog == [page |-> 1, pageSize |-> 24, total |-> 0, items |-> 0]

\* params.set(name, toQueryParam(values)) whatever the array holds
FilterParamAlways(values) == Some(toQueryParam(values))

\* params.set(name, toQueryParam(values)) when the array is not empty
FilterParam(values) ==
    IF Len(values) > 0 THEN Some(toQueryParam(values)) ELSE Null

\* useMemo queryString, as the URLSearchParams it is the string of
Encode(s) ==
    [ q         |-> IF Trim(s.search) # <<>> THEN Some(Trim(s.search)) ELSE Null,
      category  |-> FilterParam(s.activeFilters["categories"]),
      platform  |-> FilterParam(s.activeFilters["platforms"]),
      license   |-> FilterParam(s.activeFilters["licenses"]),
      status    |-> FilterParam(s.activeFilters["statuses"]),
      type      |-> FilterParam(s.activeFilters["types"]),
      language  |-> FilterParam(s.activeFilters["languages"]),
      page      |-> Some(String(s.page)),
      page_size |-> Some(String(s.pageSize)),
      sort      |-> Some(<<s.sort>>),
      order     |-> Some(<<s.order>>) ]

queryString == Encode(QueryState)

CeilDiv(a, b) == (a + b - 1) \div b

\* The empty-state view is rendered
EmptyStateRendered == ~loading /\ error = "" /\ catalog.items = 0

\* the number of pages without its floor of one
totalPagesNoFloor == CeilDiv(catalog.total, catalog.pageSize)

totalPages == Max(1, CeilDiv(catalog.total, catalog.pageSize))

-----------------------------------------------------------------------------
(* Inputs *)

NoParams == [k \in ParamKeys |-> Null]
With(params, k, text) == [params EXCEPT ![k] = Some(text)]

\* The raw values a hand-edited URL gives page and page_size
RawPages == { <<>>, <<"abc">>, <<" ">>, <<"0">>, <<"3">>, <<"-", "1">> }

RawPageSizes == { <<>>, <<"abc">>, <<"0">>, <<"1", "2">>, <<"9", "9", "9">> }

RawSearches == { <<"foo">>, <<"foo", " ">> }

RawLists == { <<"tools">>, <<"tools", ",", ",", "gis", " ">>,
              <<"tools", ",", "tools">> }

\* The URLs a hand-edited address gives the page
InitialURLs ==
    {NoParams}
    \cup {With(NoParams, "page", t) : t \in RawPages}
    \cup {With(NoParams, "page_size", t) : t \in RawPageSizes}
    \cup {With(NoParams, "q", t) : t \in RawSearches}
    \cup {With(NoParams, "category", t) : t \in RawLists}
    \cup {With(NoParams, "sort", <<t>>) : t \in {"releaseDate", "bogus"}}
    \cup {With(NoParams, "order", <<t>>) : t \in {"desc", "bogus"}}
    \cup {With(With(NoParams, "category", <<"tools">>), "page", <<"3">>)}

\* The URLs the list lane is followed from
ListURLs ==
    { NoParams,
      With(NoParams, "page_size", <<"1", "2">>),
      With(NoParams, "q", <<"foo", " ">>),
      With(NoParams, "category", <<"tools">>),
      With(NoParams, "sort", <<"releaseDate">>),
      With(With(NoParams, "category", <<"tools">>), "page", <<"3">>) }

\* What the user types into the search box
SearchInputs == { <<>>, <<"foo", " ">> }

\* The filter chips the vocabulary offers
VocabularyValues(key) ==
    CASE key = "licenses" -> { <<"MIT">> }
      [] OTHER            -> {}

\* The options of the page-size select
PageSizeOptions == {12, 24, 48}

\* The totals the server answers with
Totals == {0, 13, 30}

FailureMessage == "catalog fetch failed"

-----------------------------------------------------------------------------
(* The server: GET /catalog answers the page it was asked for *)

ServerCatalog(qs, total) ==
    LET p  == NumberValue(qs["page"][1])
        ps == NumberValue(qs["page_size"][1])
    IN  [ page     |-> p,
          pageSize |-> ps,
          total    |-> total,
          items    |-> Max(0, Min(ps, total - (p - 1) * ps)) ]

-----------------------------------------------------------------------------
(* CatalogListPage: effects *)

\* The dependency arrays of the effects.  React compares activeFilters by
\* identity; every toggle makes a new array with other contents, and the
\* resets that may keep the contents call setPage(1) themselves, so comparing
\* contents runs the page-reset effect in the same cases as far as page goes.
ListDeps == queryString

\* the page-reset effect's array without search, and with pageSize added
ResetDepsNoSearch == <<activeFilters, sort, order>>
ResetDepsWithPageSize == <<search, activeFilters, sort, order, pageSize>>

ResetDeps == <<search, activeFilters, sort, order>>
ClampDeps == <<page, totalPages>>

CurrentDeps ==
    [ queryString |-> ListDeps, reset |-> ResetDeps, clamp |-> ClampDeps,
      location |-> locationSearch ]

RunList == ~mounted \/ deps.queryString # ListDeps
RunReset == ~mounted \/ deps.reset # ResetDeps
RunClamp == ~mounted \/ deps.clamp # ClampDeps

\* The URL effect depends on queryString and on location.search
RunUrlSync == RunList \/ deps.location # locationSearch

\* No effect is waiting to run
Settled == mounted /\ ~RunList /\ ~RunReset /\ ~RunClamp /\ ~RunUrlSync

\* the URL effect leaving the address bar alone
UrlSyncEffectNever == locationSearch

\* the URL effect writing the bare address whenever the address bar agrees
UrlSyncEffectAlternating ==
    IF locationSearch # queryString THEN queryString ELSE NoParams

\* The URL effect: navigate(..., {replace: true}) when the address bar differs.
\* Its own navigate changes location.search, one of its dependencies: the
\* effect runs once more in the EffectsPass of the render that follows.
UrlSyncEffect == IF locationSearch # queryString THEN queryString ELSE locationSearch

\* A click on a Link: the router pushes, one more history entry
NavigatePush == historyEntries + 1

\* the URL effect's navigate adding an entry
NavigateReplaceAddingEntry == historyEntries + 1

\* navigate(..., {replace: true}): the history entries afterwards
NavigateReplace == historyEntries

\* the page-reset effect without its didInitPageReset guard
PageResetEffectUnguarded == <<1>>

\* The page-reset effect: the setPage calls it makes
PageResetEffect == IF ~didInitPageReset THEN <<>> ELSE <<1>>

\* the page-clamp effect going to the first page, and never clamping
PageClampEffectToFirst == IF page > totalPages THEN <<1>> ELSE <<>>
PageClampEffectNever == <<>>

\* The page-clamp effect: the setPage calls it makes
PageClampEffect == IF page > totalPages THEN <<totalPages>> ELSE <<>>

EffectsPass ==
    /\ route = "list"
    /\ ~Settled
    /\ LET reset  == IF RunReset THEN PageResetEffect ELSE <<>>
           clamp  == IF RunClamp THEN PageClampEffect ELSE <<>>
           queued == reset \o clamp
       IN  /\ page' = IF queued = <<>> THEN page ELSE queued[Len(queued)]
           /\ fired' = (IF reset # <<>> THEN {"reset"} ELSE {})
                       \cup (IF clamp # <<>> THEN {"clamp"} ELSE {})
    /\ locationSearch' = IF RunUrlSync THEN UrlSyncEffect ELSE locationSearch
    /\ historyEntries' = IF RunUrlSync /\ locationSearch # queryString
                         THEN NavigateReplace
                         ELSE historyEntries
    /\ IF RunList
       THEN /\ inflight' = Append(inflight, [qs |-> queryString])
            /\ loading' = TRUE
            /\ error' = ""
       ELSE UNCHANGED <<inflight, loading, error>>
    /\ didInitPageReset' = (didInitPageReset \/ RunReset)
    /\ deps' = CurrentDeps
    /\ mounted' = TRUE
    /\ UNCHANGED <<search, activeFilters, pageSize, sort, order, catalog,
                   catalogFor, lastEvent, userActions, detailVars, route,
                   fromState, openedFrom, detailPageVars>>

-----------------------------------------------------------------------------
(* CatalogListPage: responses of the list request *)

ListResponseOk(i, total) ==
    /\ i \in 1..Len(inflight)
    /\ Settled
    /\ catalog' = ServerCatalog(inflight[i].qs, total)
    /\ catalogFor' = Some(inflight[i].qs)
    /\ loading' = FALSE
    /\ inflight' = SubSeq(inflight, 1, i - 1) \o SubSeq(inflight, i + 1, Len(inflight))
    /\ lastEvent' = "ListResponseOk"
    /\ fired' = {}
    /\ UNCHANGED <<search, activeFilters, page, pageSize, sort, order, error,
                   didInitPageReset, locationSearch, mounted, deps, userActions,
                   vocabularyVars, detailVars, navigationVars, detailPageVars>>

\* the catch of loadCatalog going back to the empty catalog
ListResponseFailClearing(i) ==
    /\ i \in 1..Len(inflight)
    /\ Settled
    /\ error' = FailureMessage
    /\ catalog' = InitialCatalog
    /\ catalogFor' = Null
    /\ loading' = FALSE
    /\ inflight' = SubSeq(inflight, 1, i - 1) \o SubSeq(inflight, i + 1, Len(inflight))
    /\ lastEvent' = "ListResponseFail"
    /\ fired' = {}
    /\ UNCHANGED <<search, activeFilters, page, pageSize, sort, order,
                   didInitPageReset, locationSearch, mounted, deps,
                   userActions, vocabularyVars, detailVars, navigationVars, detailPageVars>>

ListResponseFail(i) ==
    /\ i \in 1..Len(inflight)
    /\ Settled
    /\ error' = FailureMessage
    /\ loading' = FALSE
    /\ inflight' = SubSeq(inflight, 1, i - 1) \o SubSeq(inflight, i + 1, Len(inflight))
    /\ lastEvent' = "ListResponseFail"
    /\ fired' = {}
    /\ UNCHANGED <<search, activeFilters, page, pageSize, sort, order, catalog,
                   catalogFor, didInitPageReset, locationSearch, mounted, deps,
                   userActions, vocabularyVars, detailVars, navigationVars, detailPageVars>>

-----------------------------------------------------------------------------
(* CatalogListPage: user events *)

\* A user event or a response is handled once the effects of the last render
\* have run.  The model bounds the events of a behaviour and the requests in
\* flight (an event leads to at most two requests); where loadFilters has run,
\* so that the vocabulary requests are followed too, it follows fewer events.
CanAct ==
    /\ route = "list"
    /\ userActions < MaxUserActions
    /\ filtersDeps # Null => userActions < MaxVocabularyActions
    /\ Len(inflight) + 2 <= MaxInFlight
    /\ Settled

Event(name) ==
    /\ lastEvent' = name
    /\ fired' = {}
    /\ userActions' = userActions + 1
    /\ UNCHANGED <<catalog, loading, error, didInitPageReset, locationSearch,
                   mounted, deps, inflight, catalogFor, vocabularyVars, detailVars, navigationVars, detailPageVars>>

SetSearch(text) ==
    /\ CanAct
    /\ text # search
    /\ search' = text
    /\ Event("SetSearch")
    /\ UNCHANGED <<activeFilters, page, pageSize, sort, order>>

\* toggleFilterValue without the delete of its first branch
toggleFilterValueNoDelete(prev, key, value) ==
    LET current == Distinct(prev[key])
    IN  [prev EXCEPT ![key] = IF Contains(current, value)
                              THEN current
                              ELSE Append(current, value)]

toggleFilterValue(prev, key, value) ==
    LET current == Distinct(prev[key])
    IN  [prev EXCEPT ![key] = IF Contains(current, value)
                              THEN Without(current, value)
                              ELSE Append(current, value)]

ToggleFilterValue(key, value) ==
    /\ CanAct
    /\ activeFilters' = toggleFilterValue(activeFilters, key, value)
    /\ Event("ToggleFilterValue")
    /\ UNCHANGED <<search, page, pageSize, sort, order>>

\* resetFilters without its setSort and setOrder
resetFiltersKeepingSort ==
    /\ CanAct
    /\ activeFilters' = initialActiveFilters
    /\ search' = <<>>
    /\ page' = 1
    /\ Event("resetFilters")
    /\ UNCHANGED <<pageSize, sort, order>>

resetFilters ==
    /\ CanAct
    /\ activeFilters' = initialActiveFilters
    /\ search' = <<>>
    /\ sort' = "name"
    /\ order' = "asc"
    /\ page' = 1
    /\ Event("resetFilters")
    /\ UNCHANGED pageSize

\* resetOnlyFilters clearing the search text as well
resetOnlyFiltersClearingSearch ==
    /\ CanAct
    /\ \E key \in FilterKeys : activeFilters[key] # <<>>
    /\ activeFilters' = initialActiveFilters
    /\ search' = <<>>
    /\ page' = 1
    /\ Event("resetOnlyFilters")
    /\ UNCHANGED <<pageSize, sort, order>>

resetOnlyFilters ==
    /\ CanAct
    /\ \E key \in FilterKeys : activeFilters[key] # <<>>
    /\ activeFilters' = initialActiveFilters
    /\ page' = 1
    /\ Event("resetOnlyFilters")
    /\ UNCHANGED <<search, pageSize, sort, order>>

SetPageSize(value) ==
    /\ CanAct
    /\ value # pageSize
    /\ pageSize' = value
    /\ Event("SetPageSize")
    /\ UNCHANGED <<search, activeFilters, page, sort, order>>

SetSort(value) ==
    /\ CanAct
    /\ value # sort
    /\ sort' = value
    /\ Event("SetSort")
    /\ UNCHANGED <<search, activeFilters, page, pageSize, order>>

SetOrder(value) ==
    /\ CanAct
    /\ value # order
    /\ order' = value
    /\ Event("SetOrder")
    /\ UNCHANGED <<search, activeFilters, page, pageSize, sort>>

PreviousPage ==
    /\ CanAct
    /\ page # 1
    /\ page' = Max(1, page - 1)
    /\ Event("PreviousPage")
    /\ UNCHANGED <<search, activeFilters, pageSize, sort, order>>

NextPage ==
    /\ CanAct
    /\ page # totalPages
    /\ page' = Min(totalPages, page + 1)
    /\ Event("NextPage")
    /\ UNCHANGED <<search, activeFilters, pageSize, sort, order>>

-----------------------------------------------------------------------------
(* CatalogListPage: the filter vocabulary *)

emptyFilters == <<>>

\* filterQueryString with the page added to it
EncodeFiltersWithPage(s) ==
    [ q         |-> IF Trim(s.search) # <<>> THEN Some(Trim(s.search)) ELSE Null,
      category  |-> FilterParam(s.activeFilters["categories"]),
      platform  |-> FilterParam(s.activeFilters["platforms"]),
      license   |-> FilterParam(s.activeFilters["licenses"]),
      status    |-> FilterParam(s.activeFilters["statuses"]),
      type      |-> FilterParam(s.activeFilters["types"]),
      language  |-> FilterParam(s.activeFilters["languages"]),
      page      |-> Some(String(s.page)),
      page_size |-> Null,
      sort      |-> Null,
      order     |-> Null ]

\* useMemo filterQueryString, as the URLSearchParams it is the string of
EncodeFilters(s) ==
    [ q         |-> IF Trim(s.search) # <<>> THEN Some(Trim(s.search)) ELSE Null,
      category  |-> FilterParam(s.activeFilters["categories"]),
      platform  |-> FilterParam(s.activeFilters["platforms"]),
      license   |-> FilterParam(s.activeFilters["licenses"]),
      status    |-> FilterParam(s.activeFilters["statuses"]),
      type      |-> FilterParam(s.activeFilters["types"]),
      language  |-> FilterParam(s.activeFilters["languages"]),
      page      |-> Null,
      page_size |-> Null,
      sort      |-> Null,
      order     |-> Null ]

filterQueryString == EncodeFilters(QueryState)

\* The server: GET /catalog/filters answers the vocabulary of the narrowed set
ServerFilters(qs) == Some(qs)

RunFilters == filtersDeps # Some(filterQueryString)

\* The loadFilters effect, as a part of the effects run
LoadFiltersEffect ==
    /\ IF RunFilters
       THEN filtersInflight' = Append(filtersInflight, [qs |-> filterQueryString])
       ELSE UNCHANGED filtersInflight
    /\ filtersDeps' = Some(filterQueryString)
    /\ UNCHANGED filters

FiltersResponseOk(i) ==
    /\ i \in 1..Len(filtersInflight)
    /\ Settled
    /\ filters' = ServerFilters(filtersInflight[i].qs)
    /\ filtersInflight' = SubSeq(filtersInflight, 1, i - 1)
                          \o SubSeq(filtersInflight, i + 1, Len(filtersInflight))
    /\ lastEvent' = "FiltersResponseOk"
    /\ fired' = {}
    /\ UNCHANGED <<search, activeFilters, page, pageSize, sort, order, catalog,
                   loading, error, didInitPageReset, locationSearch, mounted,
                   deps, inflight, catalogFor, userActions, filtersDeps,
                   detailVars, navigationVars, detailPageVars>>

\* the catch of loadFilters falling back to the empty vocabulary
FiltersResponseFailClearing(i) ==
    /\ i \in 1..Len(filtersInflight)
    /\ Settled
    /\ filters' = emptyFilters
    /\ filtersInflight' = SubSeq(filtersInflight, 1, i - 1)
                          \o SubSeq(filtersInflight, i + 1, Len(filtersInflight))
    /\ lastEvent' = "FiltersResponseFail"
    /\ fired' = {}
    /\ UNCHANGED <<search, activeFilters, page, pageSize, sort, order, catalog,
                   loading, error, didInitPageReset, locationSearch, mounted,
                   deps, inflight, catalogFor, userActions, filtersDeps,
                   detailVars, navigationVars, detailPageVars>>

FiltersResponseFail(i) ==
    /\ i \in 1..Len(filtersInflight)
    /\ Settled
    /\ filtersInflight' = SubSeq(filtersInflight, 1, i - 1)
                          \o SubSeq(filtersInflight, i + 1, Len(filtersInflight))
    /\ lastEvent' = "FiltersResponseFail"
    /\ fired' = {}
    /\ UNCHANGED <<search, activeFilters, page, pageSize, sort, order, catalog,
                   loading, error, didInitPageReset, locationSearch, mounted,
                   deps, inflight, catalogFor, userActions, filters, filtersDeps,
                   detailVars, navigationVars, detailPageVars>>

-----------------------------------------------------------------------------
(* App.tsx: the detail panel *)

\* The entries whose cards are displayed
EntryIds == {"a", "b"}

\* The server: GET /catalog/{id} answers the entry of that identifier
ServerDetail(id) == Some(id)

RunDetail == detailDeps # Some(selectedId)

\* A click is handled once the effect of the last render has run
CanSelect == ~RunDetail /\ userActions < MaxSelections

DetailEvent(name) ==
    /\ lastEvent' = name
    /\ userActions' = userActions + 1
    /\ UNCHANGED <<search, activeFilters, page, pageSize, sort, order, catalog,
                   loading, error, didInitPageReset, locationSearch, mounted,
                   deps, inflight, catalogFor, fired, vocabularyVars,
                   navigationVars, detailPageVars,
                   selectedItem, detailLoading, detailInflight, detailDeps>>

\* The card's button: setSelectedId((prev) => (prev === item.id ? null : item.id))
SelectItem(id) ==
    /\ CanSelect
    /\ selectedId' = IF selectedId = Some(id) THEN Null ELSE Some(id)
    /\ DetailEvent("SelectItem")

\* The panel's close button, rendered while an identifier is selected
CloseDetail ==
    /\ CanSelect
    /\ selectedId # Null
    /\ selectedId' = Null
    /\ DetailEvent("CloseDetail")

\* the loadDetail effect returning on a null identifier without its clearing
LoadDetailEffectNoClear ==
    /\ RunDetail
    /\ IF selectedId = Null
       THEN UNCHANGED <<selectedItem, detailLoading, detailInflight>>
       ELSE /\ detailLoading' = TRUE
            /\ detailInflight' = Append(detailInflight, [id |-> selectedId[1]])
            /\ UNCHANGED selectedItem
    /\ detailDeps' = Some(selectedId)
    /\ UNCHANGED <<search, activeFilters, page, pageSize, sort, order, catalog,
                   loading, error, didInitPageReset, locationSearch, mounted,
                   deps, inflight, catalogFor, lastEvent, fired, userActions,
                   vocabularyVars, navigationVars, detailPageVars, selectedId>>

\* The loadDetail effect
LoadDetailEffect ==
    /\ RunDetail
    /\ IF selectedId = Null
       THEN /\ selectedItem' = Null
            /\ UNCHANGED <<detailLoading, detailInflight>>
       ELSE /\ detailLoading' = TRUE
            /\ detailInflight' = Append(detailInflight, [id |-> selectedId[1]])
            /\ UNCHANGED selectedItem
    /\ detailDeps' = Some(selectedId)
    /\ UNCHANGED <<search, activeFilters, page, pageSize, sort, order, catalog,
                   loading, error, didInitPageReset, locationSearch, mounted,
                   deps, inflight, catalogFor, lastEvent, fired, userActions,
                   vocabularyVars, navigationVars, detailPageVars, selectedId>>

DetailResponse(i, item, name) ==
    /\ i \in 1..Len(detailInflight)
    /\ ~RunDetail
    /\ selectedItem' = item
    /\ detailLoading' = FALSE
    /\ detailInflight' = SubSeq(detailInflight, 1, i - 1)
                         \o SubSeq(detailInflight, i + 1, Len(detailInflight))
    /\ lastEvent' = name
    /\ UNCHANGED <<search, activeFilters, page, pageSize, sort, order, catalog,
                   loading, error, didInitPageReset, locationSearch, mounted,
                   deps, inflight, catalogFor, fired, userActions,
                   vocabularyVars, navigationVars, detailPageVars, selectedId,
                   detailDeps>>

DetailResponseOk(i) ==
    /\ i \in 1..Len(detailInflight)
    /\ DetailResponse(i, ServerDetail(detailInflight[i].id), "DetailResponseOk")

DetailResponseFail(i) ==
    /\ i \in 1..Len(detailInflight)
    /\ DetailResponse(i, Null, "DetailResponseFail")

-----------------------------------------------------------------------------
(* pages/CatalogDetail: the detail page of the route /catalog/:entryId *)

DetailFailureMessage == "detail-failed"

\* the effect's dependency [entryId] changed since its last run
RunDetailPage == route = "detail" /\ detailPageDeps # Some(entryId)

\* The catch branch: setError only, the slot keeps what it holds
DetailPageCatch == detail

\* The loadDetail effect of the detail page
DetailPageEffect ==
    /\ RunDetailPage
    /\ IF entryId = Null
       THEN UNCHANGED <<detailPageLoading, detailError, detailPageInflight>>
       ELSE /\ detailPageLoading' = TRUE
            /\ detailError' = ""
            /\ detailPageInflight' = Append(detailPageInflight, [id |-> entryId[1]])
    /\ detailPageDeps' = Some(entryId)
    /\ UNCHANGED <<search, activeFilters, page, pageSize, sort, order, catalog,
                   loading, error, didInitPageReset, locationSearch, mounted,
                   deps, inflight, catalogFor, lastEvent, fired, userActions,
                   vocabularyVars, detailVars, navigationVars, entryId, detail>>

DetailPageResponse(i, name) ==
    /\ i \in 1..Len(detailPageInflight)
    /\ ~RunDetailPage
    /\ detailPageLoading' = FALSE
    /\ detailPageInflight' = SubSeq(detailPageInflight, 1, i - 1)
                             \o SubSeq(detailPageInflight, i + 1,
                                       Len(detailPageInflight))
    /\ lastEvent' = name
    /\ UNCHANGED <<search, activeFilters, page, pageSize, sort, order, catalog,
                   loading, error, didInitPageReset, locationSearch, mounted,
                   deps, inflight, catalogFor, fired, userActions,
                   vocabularyVars, detailVars, navigationVars, entryId,
                   detailPageDeps>>

\* try: setDetail(data); finally: setLoading(false)
DetailPageResponseOk(i) ==
    /\ i \in 1..Len(detailPageInflight)
    /\ detail' = ServerDetail(detailPageInflight[i].id)
    /\ UNCHANGED detailError
    /\ DetailPageResponse(i, "DetailPageResponseOk")

\* catch: setError(message); finally: setLoading(false)
DetailPageResponseFail(i) ==
    /\ i \in 1..Len(detailPageInflight)
    /\ detail' = DetailPageCatch
    /\ detailError' = DetailFailureMessage
    /\ DetailPageResponse(i, "DetailPageResponseFail")

\* The route's identifier changes while the page stays rendered (a history
\* traversal from one detail entry to another): useParams gives the new value
EntryChange(id) ==
    /\ route = "detail"
    /\ ~RunDetailPage
    /\ userActions < MaxSelections
    /\ entryId # Some(id)
    /\ entryId' = Some(id)
    /\ lastEvent' = "EntryChange"
    /\ userActions' = userActions + 1
    /\ UNCHANGED <<search, activeFilters, page, pageSize, sort, order, catalog,
                   loading, error, didInitPageReset, locationSearch, mounted,
                   deps, inflight, catalogFor, fired, vocabularyVars, detailVars,
                   navigationVars, detail, detailPageLoading, detailError,
                   detailPageInflight, detailPageDeps>>

-----------------------------------------------------------------------------
(* Navigation between the list page and the detail page *)

\* location.state.from ?? '': the Link of the list always gives '?' + queryString
\* and the list's own location carries no state
backSearch == IF fromState # Null THEN fromState[1] ELSE NoParams

\* The card's detail Link: the router pushes /catalog/{id} with state.from,
\* the list page unmounts and the detail page mounts
OpenDetail(id) ==
    /\ CanAct
    /\ catalog.items > 0
    /\ route' = "detail"
    /\ fromState' = Some(queryString)
    /\ openedFrom' = Some(queryString)
    /\ historyEntries' = NavigatePush
    /\ locationSearch' = NoParams
    /\ mounted' = FALSE
    /\ inflight' = <<>>
    /\ entryId' = Some(id)
    /\ detail' = Null
    /\ detailPageLoading' = FALSE
    /\ detailError' = ""
    /\ detailPageInflight' = <<>>
    /\ detailPageDeps' = Null
    /\ lastEvent' = "OpenDetail"
    /\ fired' = {}
    /\ userActions' = userActions + 1
    /\ UNCHANGED <<search, activeFilters, page, pageSize, sort, order, catalog,
                   loading, error, didInitPageReset, deps, catalogFor,
                   vocabularyVars, detailVars>>

\* The detail page's back Link: the router pushes / with backSearch, the detail
\* page unmounts and the list page mounts, hydrated from the new address.  It
\* ends a visit that OpenDetail began, so the bound on events bounds it too.
BackLink ==
    /\ route = "detail"
    /\ route' = "list"
    /\ fromState' = Null
    /\ historyEntries' = NavigatePush
    /\ locationSearch' = backSearch
    /\ search' = InitialState(backSearch).search
    /\ activeFilters' = InitialState(backSearch).activeFilters
    /\ page' = InitialState(backSearch).page
    /\ pageSize' = InitialState(backSearch).pageSize
    /\ sort' = InitialState(backSearch).sort
    /\ order' = InitialState(backSearch).order
    /\ catalog' = InitialCatalog
    /\ loading' = FALSE
    /\ error' = ""
    /\ didInitPageReset' = FALSE
    /\ mounted' = FALSE
    /\ deps' = [queryString |-> Null, reset |-> Null, clamp |-> Null,
                location |-> Null]
    /\ inflight' = <<>>
    /\ catalogFor' = Null
    /\ entryId' = Null
    /\ detail' = Null
    /\ detailPageLoading' = FALSE
    /\ detailError' = ""
    /\ detailPageInflight' = <<>>
    /\ detailPageDeps' = Null
    /\ lastEvent' = "BackLink"
    /\ fired' = {}
    /\ UNCHANGED <<userActions, openedFrom, vocabularyVars, detailVars>>

\* the address bar changing and the page reading its state from it again
AddressBarChangeHydrating(url) ==
    /\ CanAct
    /\ url # locationSearch
    /\ locationSearch' = url
    /\ search' = InitialState(url).search
    /\ activeFilters' = InitialState(url).activeFilters
    /\ page' = InitialState(url).page
    /\ pageSize' = InitialState(url).pageSize
    /\ sort' = InitialState(url).sort
    /\ order' = InitialState(url).order
    /\ lastEvent' = "AddressBarChange"
    /\ fired' = {}
    /\ userActions' = userActions + 1
    /\ UNCHANGED <<catalog, loading, error, didInitPageReset, mounted, deps,
                   inflight, catalogFor, vocabularyVars, detailVars,
                   navigationVars, detailPageVars>>

\* The query string of the address bar changes while the list page stays
\* rendered (a history traversal, a Link to the same path): useLocation gives
\* the new value and nothing else reads it
AddressBarChange(url) ==
    /\ CanAct
    /\ url # locationSearch
    /\ locationSearch' = url
    /\ UNCHANGED <<search, activeFilters, page, pageSize, sort, order>>
    /\ lastEvent' = "AddressBarChange"
    /\ fired' = {}
    /\ userActions' = userActions + 1
    /\ UNCHANGED <<catalog, loading, error, didInitPageReset, mounted, deps,
                   inflight, catalogFor, vocabularyVars, detailVars,
                   navigationVars, detailPageVars>>

-----------------------------------------------------------------------------
(* The specification *)

\* The first render of the list page opened with a URL
Hydrate(url) ==
    /\ locationSearch = url
    /\ search = InitialState(url).search
    /\ activeFilters = InitialState(url).activeFilters
    /\ page = InitialState(url).page
    /\ pageSize = InitialState(url).pageSize
    /\ sort = InitialState(url).sort
    /\ order = InitialState(url).order
    /\ catalog = InitialCatalog
    /\ loading = FALSE
    /\ error = ""
    /\ didInitPageReset = FALSE
    /\ mounted = FALSE
    /\ deps = [queryString |-> Null, reset |-> Null, clamp |-> Null,
               location |-> Null]
    /\ inflight = <<>>
    /\ catalogFor = Null
    /\ lastEvent = "none"
    /\ fired = {}
    /\ userActions = 0

VocabularyInit ==
    /\ filters = emptyFilters
    /\ filtersInflight = <<>>
    /\ filtersDeps = Null

DetailInit ==
    /\ selectedId = Null
    /\ selectedItem = Null
    /\ detailLoading = FALSE
    /\ detailInflight = <<>>
    /\ detailDeps = Null

\* The application opened on the list page: one history entry
NavigationInit ==
    /\ route = "list"
    /\ fromState = Null
    /\ historyEntries = 1
    /\ openedFrom = Null

\* The detail page is not rendered
DetailPageInit ==
    /\ entryId = Null
    /\ detail = Null
    /\ detailPageLoading = FALSE
    /\ detailError = ""
    /\ detailPageInflight = <<>>
    /\ detailPageDeps = Null

\* the lanes other than the list's
LanesInit == VocabularyInit /\ DetailInit /\ NavigationInit /\ DetailPageInit

Init ==
    /\ \E url \in ListURLs : Hydrate(url)
    /\ LanesInit

ListResponse ==
    \/ \E i \in 1..MaxInFlight, total \in Totals : ListResponseOk(i, total)
    \/ \E i \in 1..MaxInFlight : ListResponseFail(i)

\* A click on a chip: one of the vocabulary's, or one of the active filters'
ToggleEvent ==
    \E key \in FilterKeys :
        \E value \in VocabularyValues(key) \cup {activeFilters[key][i] :
                                                   i \in 1..Len(activeFilters[key])} :
            ToggleFilterValue(key, value)

UserEvent ==
    \/ \E text \in SearchInputs : SetSearch(text)
    \/ ToggleEvent
    \/ resetFilters
    \/ resetOnlyFilters
    \/ \E value \in PageSizeOptions : SetPageSize(value)
    \/ \E value \in {"name", "releaseDate"} : SetSort(value)
    \/ \E value \in {"asc", "desc"} : SetOrder(value)
    \/ PreviousPage
    \/ NextPage

\* The list lane
Next ==
    \/ EffectsPass /\ UNCHANGED vocabularyVars
    \/ ListResponse
    \/ UserEvent

Spec == Init /\ [][Next]_vars

\* The list lane with the chips as the only controls used, from any of the
\* URLs
ToggleNext ==
    \/ EffectsPass /\ UNCHANGED vocabularyVars
    \/ ListResponse
    \/ ToggleEvent

ToggleSpecInit ==
    /\ \E url \in InitialURLs : Hydrate(url)
    /\ LanesInit

ToggleSpec == ToggleSpecInit /\ [][ToggleNext]_vars

\* The list page settled on the fourth page of a result of four pages
ScenarioPage == 4
ScenarioTotal == 80

ScenarioListInit ==
    /\ search = <<>>
    /\ activeFilters = initialActiveFilters
    /\ page = ScenarioPage
    /\ pageSize = 24
    /\ sort = "name"
    /\ order = "asc"
    /\ catalog = ServerCatalog(queryString, ScenarioTotal)
    /\ catalogFor = Some(queryString)
    /\ loading = FALSE
    /\ error = ""
    /\ didInitPageReset = TRUE
    /\ locationSearch = queryString
    /\ mounted = TRUE
    /\ deps = CurrentDeps
    /\ inflight = <<>>
    /\ lastEvent = "ListResponseOk"
    /\ fired = {}
    /\ userActions = 0

\* The list lane, from the fourth page
ScenarioInit ==
    /\ ScenarioListInit
    /\ LanesInit

ScenarioSpec == ScenarioInit /\ [][Next]_vars

\* The list lane and the vocabulary lane together, from the first render and
\* from the fourth page with the vocabulary loaded
VocabularyURLs ==
    { NoParams, With(With(NoParams, "category", <<"tools">>), "page", <<"3">>) }

VocabularyLoaded ==
    /\ filters = ServerFilters(filterQueryString)
    /\ filtersInflight = <<>>
    /\ filtersDeps = Some(filterQueryString)

VocabularySpecInit ==
    /\ \/ (\E url \in VocabularyURLs : Hydrate(url)) /\ VocabularyInit
       \/ ScenarioListInit /\ VocabularyLoaded
    /\ DetailInit
    /\ NavigationInit
    /\ DetailPageInit

\* the first effects run and every event lead to at most one vocabulary request
MaxFiltersInFlight == MaxVocabularyActions + 1

VocabularyNext ==
    \/ EffectsPass /\ LoadFiltersEffect
    \/ ListResponse
    \/ UserEvent
    \/ \E i \in 1..MaxFiltersInFlight : FiltersResponseOk(i)
    \/ \E i \in 1..MaxFiltersInFlight : FiltersResponseFail(i)

VocabularySpec == VocabularySpecInit /\ [][VocabularyNext]_vars

\* The detail panel
DetailSpecInit ==
    /\ Hydrate(NoParams)
    /\ LanesInit

DetailNext ==
    \/ LoadDetailEffect
    \/ \E id \in EntryIds : SelectItem(id)
    \/ CloseDetail
    \/ \E i \in 1..MaxSelections : DetailResponseOk(i)
    \/ \E i \in 1..MaxSelections : DetailResponseFail(i)

DetailSpec == DetailSpecInit /\ [][DetailNext]_vars

\* The list page and the detail page: from the first render of the list, with
\* the detail Link, the back Link, changes of the address bar and the controls
\* of the list
NavigationURLs ==
    { NoParams,
      With(With(NoParams, "category", <<"tools">>), "sort", <<"releaseDate">>) }

NavigationSpecInit ==
    /\ \E url \in NavigationURLs : Hydrate(url)
    /\ LanesInit

NavigationNext ==
    \/ EffectsPass /\ UNCHANGED vocabularyVars
    \/ ListResponse
    \/ UserEvent
    \/ \E id \in EntryIds : OpenDetail(id)
    \/ BackLink
    \/ \E url \in NavigationURLs : AddressBarChange(url)

NavigationSpec == NavigationSpecInit /\ [][NavigationNext]_vars

\* The detail page opened at /catalog/{id}
DetailPageSpecInit ==
    /\ Hydrate(NoParams)
    /\ VocabularyInit
    /\ DetailInit
    /\ route = "detail"
    /\ fromState = Null
    /\ historyEntries = 1
    /\ openedFrom = Null
    /\ \E id \in EntryIds : entryId = Some(id)
    /\ detail = Null
    /\ detailPageLoading = FALSE
    /\ detailError = ""
    /\ detailPageInflight = <<>>
    /\ detailPageDeps = Null

DetailPageNext ==
    \/ DetailPageEffect
    \/ \E id \in EntryIds : EntryChange(id)
    \/ \E i \in 1..MaxSelections : DetailPageResponseOk(i)
    \/ \E i \in 1..MaxSelections : DetailPageResponseFail(i)

DetailPageSpec == DetailPageSpecInit /\ [][DetailPageNext]_vars

\* The raw values a hand-edited URL gives sort and order: missing, empty, the
\* two names, and values that differ from them by a space or by their case
RawSorts ==
    { Null, Some(<<>>), Some(<<"releaseDate">>), Some(<<"name">>),
      Some(<<"releaseDate", " ">>), Some(<<"ReleaseDate">>), Some(<<"bogus">>) }

RawOrders ==
    { Null, Some(<<>>), Some(<<"desc">>), Some(<<"asc">>),
      Some(<<" ", "desc">>), Some(<<"DESC">>), Some(<<"bogus">>) }

DecodeURLs ==
    { [NoParams EXCEPT !["sort"] = s, !["order"] = o] :
        s \in RawSorts, o \in RawOrders }

\* The list page opened with any of the URLs, and the two selects
DecodeSpecInit ==
    /\ \E url \in InitialURLs \cup DecodeURLs : Hydrate(url)
    /\ LanesInit

DecodeNext ==
    \/ EffectsPass /\ UNCHANGED vocabularyVars
    \/ ListResponse
    \/ \E value \in {"name", "releaseDate"} : SetSort(value)
    \/ \E value \in {"asc", "desc"} : SetOrder(value)

DecodeSpec == DecodeSpecInit /\ [][DecodeNext]_vars

-----------------------------------------------------------------------------
(* Properties *)

\* ceil(total / size), as the least n with n * size >= total
CeilOf(total, size) == CHOOSE n \in 0..total : n * size >= total /\ (n - 1) * size < total

\* A parameter is missing: absent from the URL, or present with no value
Missing(value) == value = Null \/ value = Some(<<>>)

\* No effect is waiting and no list request is in flight
Quiescent == Settled /\ inflight = <<>>

\* C1: a list response that replaces the displayed catalog answers the query
\* string the state encodes to at that moment, whatever the order in which the
\* responses of overlapping requests arrive.
C1_StaleResponseDiscarded ==
    [][ (lastEvent' = "ListResponseOk" /\ Len(inflight') < Len(inflight))
            => catalogFor' = Some(queryString') ]_vars

\* C2: with no user input, the page hydrated from the URL is changed only when
\* a list response has arrived whose total puts it out of range.
C2_DeepLinkPreserved ==
    [][ (userActions' = 0 /\ page' # page)
            => /\ catalogFor # Null
               /\ page > CeilOf(catalog.total, catalog.pageSize) ]_vars

\* C3: the flag is false until the first effects run, which sets it without
\* the page-reset effect calling setPage, and once true it stays true.
C3_InitialLoadExemption ==
    /\ [](~mounted => ~didInitPageReset)
    /\ [][ /\ ~mounted => (didInitPageReset' /\ "reset" \notin fired')
           /\ didInitPageReset => didInitPageReset' ]_vars

C3_Witness ==
    /\ mounted
    /\ lastEvent = "none"
    /\ didInitPageReset
    /\ "reset" \notin fired
    /\ Len(inflight) = 1
    /\ inflight[1].qs["page"] = Some(<<"3">>)
    /\ inflight[1].qs["category"] = Some(<<"tools">>)

\* C4: once the effects have run after a change of the search text, of a
\* filter set, of sort or of order, page is 1.
C4_PageResetRule ==
    (Settled /\ lastEvent \in {"SetSearch", "ToggleFilterValue", "SetSort",
                               "SetOrder", "resetFilters", "resetOnlyFilters"})
        => page = 1

\* the search text changed on a page after the first: the request the change
\* first caused still carries that page
C4_Witness ==
    /\ Settled
    /\ lastEvent = "SetSearch"
    /\ page = 1
    /\ \E i \in 1..Len(inflight) :
           /\ inflight[i].qs["q"] = queryString["q"]
           /\ inflight[i].qs["page"] = Some(<<"2">>)

\* C5: a change of the page size, and the effects run after it, leave page,
\* search text, filter sets, sort and order as they were, and the page-reset
\* effect does not call setPage.
C5_PageSizeAlone ==
    [][ lastEvent' = "SetPageSize"
            => /\ page' = page
               /\ search' = search
               /\ activeFilters' = activeFilters
               /\ sort' = sort
               /\ order' = order
               /\ "reset" \notin fired' ]_vars

C5_Witness ==
    /\ Settled
    /\ lastEvent = "SetPageSize"
    /\ page > 1
    /\ inflight # <<>>
    /\ inflight[Len(inflight)].qs["page_size"] = Some(String(pageSize))
    /\ inflight[Len(inflight)].qs["page"] = Some(String(page))

\* C6: the effects run after a list response with total > 0 was applied sets a
\* page above ceil(total / pageSize), total and pageSize being the response's,
\* to exactly that number, and the next run issues a list request for the
\* corrected page.
C6_PageClampRule ==
    [][ /\ ( /\ lastEvent = "ListResponseOk"
             /\ ~Settled
             /\ catalog.total > 0
             /\ page > CeilOf(catalog.total, catalog.pageSize) )
            => page' = CeilOf(catalog.total, catalog.pageSize)
        /\ (lastEvent = "ListResponseOk" /\ "clamp" \in fired)
            => /\ Len(inflight') = Len(inflight) + 1
               /\ inflight'[Len(inflight')].qs = queryString
               /\ queryString["page"] = Some(String(page)) ]_vars

C6_Witness ==
    /\ lastEvent = "ListResponseOk"
    /\ fired = {"clamp"}
    /\ catalog.total > 0
    /\ page = CeilOf(catalog.total, catalog.pageSize)
    /\ page > 1
    /\ deps.clamp[1] > page

\* C7 as stated: in a quiescent state with a catalog of total > 0 displayed,
\* page is at most ceil(total / pageSize) for the pageSize of the state.
C7_PageWithinStatePageSize ==
    (Quiescent /\ catalogFor # Null /\ catalog.total > 0)
        => page <= CeilOf(catalog.total, pageSize)

\* C7 as amended: in a quiescent state with a catalog of total > 0 displayed,
\* page is at most ceil(total / pageSize) for the pageSize of that catalog.
C7_PageWithinDisplayedPages ==
    (Quiescent /\ catalogFor # Null /\ catalog.total > 0)
        => page <= CeilOf(catalog.total, catalog.pageSize)

C7_Witness ==
    /\ Quiescent
    /\ catalogFor # Null
    /\ catalog.total > 0
    /\ catalog.pageSize # pageSize
    /\ page > 1
    /\ page = CeilOf(catalog.total, catalog.pageSize)

\* C8: the effects run after a list response with total = 0 was applied leaves
\* page as it is and issues no list request.
C8_TotalZeroLeavesPage ==
    [][ (lastEvent = "ListResponseOk" /\ ~Settled /\ catalog.total = 0)
            => (page' = page /\ inflight' = inflight) ]_vars

\* C9: decoding the query string the state encodes to gives the state back.
C9_RoundTrip == InitialState(queryString) = QueryState

\* C10: page and page_size decode to the fallback (1, 24) when missing or not
\* a number, and otherwise to the value clamped to [1, ...) and to [1, 48].
C10_NumericDecode ==
    LET p  == locationSearch["page"]
        ps == locationSearch["page_size"]
    IN  ~mounted =>
            /\ (Missing(p) \/ NumberIsNaN(p[1])) => page = 1
            /\ ~(Missing(p) \/ NumberIsNaN(p[1]))
                   => page = (IF NumberValue(p[1]) < 1 THEN 1 ELSE NumberValue(p[1]))
            /\ (Missing(ps) \/ NumberIsNaN(ps[1])) => pageSize = 24
            /\ ~(Missing(ps) \/ NumberIsNaN(ps[1]))
                   => pageSize = (IF NumberValue(ps[1]) < 1 THEN 1
                                  ELSE IF NumberValue(ps[1]) > 48 THEN 48
                                  ELSE NumberValue(ps[1]))
            /\ ps = Some(<<"9", "9", "9">>) => pageSize = 48
            /\ p = Some(<<"abc">>) => page = 1

C10_Witness ==
    /\ ~mounted
    /\ locationSearch["page_size"] = Some(<<"9", "9", "9">>)
    /\ pageSize = 48

\* C11: a URL with page_size=0 hydrates pageSize to the fallback, 24.
C11_PageSizeZeroFallback ==
    (~mounted /\ locationSearch["page_size"] = Some(<<"0">>)) => pageSize = 24

\* C12: the state hydrated from any URL has page >= 1 and pageSize one of
\* 12, 24, 48.
C12_DecodeValid ==
    ~mounted => (page >= 1 /\ pageSize \in {12, 24, 48})

\* The values an array holds
SetOf(values) == {values[i] : i \in 1..Len(values)}

\* C13: in every state no filter array holds the empty text and none holds a
\* value twice.
C13_FilterSetInvariant ==
    \A key \in FilterKeys :
        /\ <<>> \notin SetOf(activeFilters[key])
        /\ \A i, j \in 1..Len(activeFilters[key]) :
               i # j => activeFilters[key][i] # activeFilters[key][j]

\* C14: the query string of the state holds q only when the search text is not
\* empty and a filter's parameter only when its array is not empty; it, and
\* every list request issued, holds page, page_size, sort and order.
C14_EncodingOmits ==
    /\ queryString["q"] # Null => search # <<>>
    /\ \A key \in FilterKeys :
           queryString[ParamOf(key)] # Null => activeFilters[key] # <<>>
    /\ \A k \in {"page", "page_size", "sort", "order"} :
           /\ queryString[k] # Null
           /\ \A i \in 1..Len(inflight) : inflight[i].qs[k] # Null

\* the request of a state of defaults only: no q, no filter, the four others
C14_Witness ==
    /\ mounted
    /\ search = <<>>
    /\ activeFilters = initialActiveFilters
    /\ inflight # <<>>
    /\ inflight[Len(inflight)].qs = queryString
    /\ queryString = [k \in ParamKeys |->
                         CASE k = "page"      -> Some(<<"1">>)
                           [] k = "page_size" -> Some(<<"2", "4">>)
                           [] k = "sort"      -> Some(<<"name">>)
                           [] k = "order"     -> Some(<<"asc">>)
                           [] OTHER           -> Null]

\* The values toggled in C15
ToggleInputs == { <<"MIT">>, <<"tools">>, <<"gis">> }

\* C15: toggling a value twice, or four times, in the filter sets of any state
\* (hydrated from a URL, or reached by toggles) gives back the set of that
\* dimension and leaves the other dimensions alone.
C15_ToggleIdempotence ==
    \A key \in FilterKeys, value \in ToggleInputs :
        LET twice == toggleFilterValue(toggleFilterValue(activeFilters, key, value),
                                       key, value)
            four  == toggleFilterValue(toggleFilterValue(twice, key, value),
                                       key, value)
        IN  /\ SetOf(twice[key]) = SetOf(activeFilters[key])
            /\ SetOf(four[key]) = SetOf(activeFilters[key])
            /\ \A other \in FilterKeys \ {key} :
                   /\ twice[other] = activeFilters[other]
                   /\ four[other] = activeFilters[other]

\* MIT toggled on and off again, next to a hydrated array that holds a value
\* twice (a toggle of that dimension would have removed the repetition)
C15_Witness ==
    /\ Settled
    /\ userActions = 2
    /\ lastEvent = "ToggleFilterValue"
    /\ activeFilters["licenses"] = <<>>
    /\ activeFilters["categories"] = << <<"tools">>, <<"tools">> >>

\* The list request for license=MIT on a page, everything else at its default
MitRequest(p) ==
    Encode([ search |-> <<>>,
             activeFilters |-> [initialActiveFilters EXCEPT !["licenses"] = << <<"MIT">> >>],
             page |-> p, pageSize |-> 24, sort |-> "name", order |-> "asc" ])

\* The only user event so far was the toggle of license=MIT
MitToggled == userActions = 1 /\ activeFilters["licenses"] = << <<"MIT">> >>

\* C16: from page 4, the effects run after the toggle of license=MIT end with a
\* list request for license=MIT and page=1; when the response of that request
\* is applied with total = 0, the empty-state view is rendered and page is 1,
\* and page stays 1 afterwards.
C16_ResetScenario ==
    [][ /\ (MitToggled /\ lastEvent = "ToggleFilterValue" /\ ~Settled /\ Settled')
            => inflight'[Len(inflight')].qs = MitRequest(1)
        /\ ( /\ MitToggled
             /\ lastEvent' = "ListResponseOk"
             /\ Len(inflight') < Len(inflight)
             /\ catalogFor' = Some(MitRequest(1))
             /\ catalog'.total = 0 )
            => (EmptyStateRendered' /\ page' = 1)
        /\ ( /\ MitToggled
             /\ lastEvent = "ListResponseOk"
             /\ catalogFor = Some(MitRequest(1))
             /\ catalog.total = 0
             /\ userActions' = userActions )
            => page' = 1 ]_vars

\* C17: a list request that fails sets the failure message and leaves the
\* displayed catalog as it was.
C17_ListFailureRetains ==
    [][ (lastEvent' = "ListResponseFail" /\ Len(inflight') < Len(inflight))
            => /\ error' = FailureMessage
               /\ catalog' = catalog
               /\ catalogFor' = catalogFor ]_vars

\* a failure next to a catalog of a response that has entries
C17_Witness ==
    /\ lastEvent = "ListResponseFail"
    /\ error = FailureMessage
    /\ catalogFor # Null
    /\ catalog.items > 0

\* C18: a vocabulary request that fails leaves the vocabulary, the list error
\* message, the displayed catalog and the query state as they were.
C18_VocabularyFailure ==
    [][ (lastEvent' = "FiltersResponseFail"
            /\ Len(filtersInflight') < Len(filtersInflight))
            => /\ filters' = filters
               /\ error' = error
               /\ catalog' = catalog
               /\ QueryState' = QueryState ]_vars

\* the request for the current search and filters failed: the vocabulary
\* displayed is the one loaded before, for other filters
C18_Witness ==
    /\ lastEvent = "FiltersResponseFail"
    /\ filtersInflight = <<>>
    /\ filters # emptyFilters
    /\ filters # ServerFilters(filterQueryString)

PaginationParams == {"page", "page_size", "sort", "order"}

\* C19: a vocabulary request carries the q and the filter parameters of the
\* state's query string and none of page, page_size, sort, order; a change of
\* page, pageSize, sort or order, a list response, and the effects run after
\* them, issue no vocabulary request.
C19_VocabularyScope ==
    [][ /\ Len(filtersInflight') > Len(filtersInflight)
            => LET request == filtersInflight'[Len(filtersInflight')].qs
               IN  /\ \A k \in PaginationParams : request[k] = Null
                   /\ \A k \in ParamKeys \ PaginationParams :
                          request[k] = queryString[k]
        /\ lastEvent' \in {"SetPageSize", "SetSort", "SetOrder", "PreviousPage",
                           "NextPage", "ListResponseOk", "ListResponseFail"}
            => filtersInflight' = filtersInflight ]_vars

\* the next page was requested while the vocabulary request of the first
\* render, which carries the category, is still the only one
C19_Witness ==
    /\ Settled
    /\ lastEvent = "NextPage"
    /\ page = 2
    /\ inflight # <<>>
    /\ inflight[Len(inflight)].qs["page"] = Some(<<"2">>)
    /\ Len(filtersInflight) = 1
    /\ filtersInflight[1].qs["category"] = Some(<<"tools">>)
    /\ filtersInflight[1].qs["page"] = Null

\* C20: once the response of the request for the selected identifier has
\* arrived, the detail slot does not hold the entry of another identifier.
C20_DetailStaleDiscarded ==
    ( /\ ~RunDetail
      /\ selectedId # Null
      /\ \A i \in 1..Len(detailInflight) : detailInflight[i].id # selectedId[1] )
        => selectedItem \in {Null, ServerDetail(selectedId[1])}

\* C21: when the selected identifier has become null, the effects run that
\* follows empties the detail slot and issues no detail request.
C21_NullIdentifierClears ==
    [][ (RunDetail /\ selectedId = Null)
            => (selectedItem' = Null /\ detailInflight' = detailInflight) ]_vars

\* The panel closed after a response had arrived: the slot is empty and no
\* request is in flight
C21_Witness ==
    /\ lastEvent = "CloseDetail"
    /\ ~RunDetail
    /\ selectedId = Null
    /\ selectedItem = Null
    /\ detailInflight = <<>>
    /\ ~detailLoading

\* C22: once the detail fetch of the displayed identifier has failed, the
\* detail slot holds no entry, a failure is shown and the page is not loading.
C22_DetailFailureClears ==
    ( /\ route = "detail"
      /\ lastEvent = "DetailPageResponseFail"
      /\ ~RunDetailPage
      /\ detailPageInflight = <<>> )
        => (detail = Null /\ detailError # "" /\ ~detailPageLoading)

\* C23: whenever no effect of the list page is pending, the query part of the
\* address bar is the canonical query string of the current state.
C23_AddressBarMirrors ==
    (route = "list" /\ Settled) => locationSearch = queryString

\* Settled after the search text was typed: the address bar carries its q
C23_Witness ==
    /\ Settled
    /\ lastEvent = "SetSearch"
    /\ search = <<"foo", " ">>
    /\ locationSearch["q"] = Some(<<"foo">>)
    /\ locationSearch = queryString

\* C24: the changes of search, filters, sort, order, page and pageSize on the
\* list page, and the URL effect that follows them, leave the number of
\* history entries at the one the application was opened with.
C24_ReplaceOnly == historyEntries = 1

\* Two changes made and mirrored into the address bar, still one entry
C24_Witness ==
    /\ Settled
    /\ userActions >= 2
    /\ lastEvent = "SetPageSize"
    /\ locationSearch["page_size"] = Some(<<"4", "8">>)
    /\ historyEntries = 1

\* C25: once the list page has settled after the return through the back
\* Link, its canonical query string is the one the detail view was opened from.
C25_BackRestore ==
    (route = "list" /\ Settled /\ lastEvent = "BackLink")
        => queryString = openedFrom[1]

\* C26: from the click on resetFilters until the next event or response, the
\* search text is empty, the six filter lists are empty, sort is name, order
\* is asc and page is 1, and no step changes pageSize.
C26_ResetAll ==
    [][ lastEvent' = "resetFilters"
            => /\ search' = <<>>
               /\ activeFilters' = initialActiveFilters
               /\ sort' = "name"
               /\ order' = "asc"
               /\ page' = 1
               /\ pageSize' = pageSize ]_vars

\* Settled after resetFilters on a state that had a search text and a
\* page size of 12
C26_Witness ==
    /\ Settled
    /\ lastEvent = "resetFilters"
    /\ userActions >= 2
    /\ pageSize = 12
    /\ search = <<>>
    /\ sort = "name"
    /\ page = 1

\* C27: from the click on resetOnlyFilters until the next event or response,
\* the six filter lists are empty and page is 1, and no step changes the
\* search text, sort, order or pageSize.
C27_ResetFiltersOnly ==
    [][ lastEvent' = "resetOnlyFilters"
            => /\ activeFilters' = initialActiveFilters
               /\ page' = 1
               /\ search' = search
               /\ sort' = sort
               /\ order' = order
               /\ pageSize' = pageSize ]_vars

\* Settled after resetOnlyFilters with the sort the user had chosen
C27_Witness ==
    /\ Settled
    /\ lastEvent = "resetOnlyFilters"
    /\ activeFilters = initialActiveFilters
    /\ sort = "releaseDate"
    /\ page = 1

\* page, pageSize, sort and order are within their domains
ValidQueryState ==
    /\ page \in Nat /\ page >= 1
    /\ pageSize \in {12, 24, 48}
    /\ sort \in {"name", "releaseDate"}
    /\ order \in {"asc", "desc"}

\* C28: every control, response and effects run (page reset and clamp
\* included) taken from a valid query state leads to a valid query state.
C28_StoreTotality == [][ ValidQueryState => ValidQueryState' ]_vars

\* The clamp has taken the page back to the last one of a shorter result
C28_Witness ==
    /\ ValidQueryState
    /\ fired = {"clamp"}
    /\ userActions >= 1
    /\ page = totalPages
    /\ page > 1

\* C29: the first render has sort = releaseDate exactly when the URL's sort
\* is the text releaseDate and name for every other or missing value, and
\* order = desc exactly when the URL's order is the text desc and asc
\* otherwise.
C29_SortOrderDecode ==
    ~mounted =>
        /\ sort \in {"name", "releaseDate"}
        /\ order \in {"asc", "desc"}
        /\ sort = "releaseDate" <=> locationSearch["sort"] = Some(<<"releaseDate">>)
        /\ order = "desc" <=> locationSearch["order"] = Some(<<"desc">>)

\* A sort that differs from releaseDate by a trailing space, with order desc
C29_Witness ==
    /\ ~mounted
    /\ locationSearch["sort"] = Some(<<"releaseDate", " ">>)
    /\ locationSearch["order"] = Some(<<"desc">>)
    /\ sort = "name"
    /\ order = "desc"

\* C30: a change of the address bar's query string while the list page is
\* rendered, and the effects run that follows it, leave the search text, the
\* filters, sort, order, page and pageSize as they were, and that effects run
\* writes the state's canonical query string back into the address bar.
C30_OneTimeHydration ==
    [][ /\ lastEvent' = "AddressBarChange" => QueryState' = QueryState
        /\ (lastEvent = "AddressBarChange" /\ ~Settled)
               => locationSearch' = queryString ]_vars

\* The address bar was changed after a search text had been typed, and it
\* carries the search text again
C30_Witness ==
    /\ Settled
    /\ lastEvent = "AddressBarChange"
    /\ search = <<"foo", " ">>
    /\ locationSearch["q"] = Some(<<"foo">>)
    /\ historyEntries = 1

\* C31: every list request issued after a change of the search text, of a
\* filter, of sort or of order, before anything else happens, carries page=1.
C31_ChangeRequestsFirstPage ==
    [][ ( /\ lastEvent \in {"SetSearch", "ToggleFilterValue", "SetSort", "SetOrder"}
          /\ lastEvent' = lastEvent
          /\ Len(inflight') > Len(inflight) )
            => inflight'[Len(inflight')].qs["page"] = Some(<<"1">>) ]_vars

\* C32: the loading indicator is true exactly when a list request is in
\* flight.
C32_LoadingTracksRequests == loading <=> inflight # <<>>

\* C33: when no list request is in flight and the last response was the
\* success of the request for the current query string, no error message is
\* displayed.
C33_NoErrorBesideSuccess ==
    ( /\ Settled
      /\ inflight = <<>>
      /\ lastEvent = "ListResponseOk"
      /\ catalogFor = Some(queryString) )
        => error = ""

\* C35: whenever no identifier is selected and the effect of the last render
\* has run, the detail slot is empty.
C35_NoSelectionNoDetail ==
    (selectedId = Null /\ ~RunDetail) => selectedItem = Null

\* C34: once the request for the current filter and search query string has
\* succeeded and its vocabulary is displayed, the response that leaves no
\* vocabulary request in flight leaves that vocabulary displayed.
C34_VocabularyOfCurrentQuery ==
    [][ ( /\ ~RunFilters
          /\ filters = ServerFilters(filterQueryString)
          /\ Len(filtersInflight') < Len(filtersInflight)
          /\ filtersInflight' = <<>> )
            => filters' = ServerFilters(filterQueryString) ]_vars

\* The list page whose effects always run and whose requests are all answered:
\* React runs the effects of every committed render, and the server answers
\* every request; the user may stop at any moment
QuiescenceURLs ==
    { NoParams,
      With(With(NoParams, "category", <<"tools">>), "page", <<"3">>) }

QuiescenceSpecInit ==
    /\ \E url \in QuiescenceURLs : Hydrate(url)
    /\ LanesInit

\* The controls that start the page-reset and the page-clamp rules
QuiescenceNext ==
    \/ EffectsPass /\ UNCHANGED vocabularyVars
    \/ ListResponse
    \/ ToggleEvent
    \/ \E value \in PageSizeOptions : SetPageSize(value)
    \/ NextPage

QuiescenceSpec ==
    /\ QuiescenceSpecInit
    /\ [][QuiescenceNext]_vars
    /\ WF_vars(EffectsPass /\ UNCHANGED vocabularyVars)
    /\ WF_vars(ListResponse)

\* C36: from every state, once the user stops, the list page reaches a state
\* where no effect is waiting to run and no list request is in flight: the
\* page-reset rule, the page-clamp rule, the URL sync and the fetch do not
\* trigger each other forever.
C36_Quiescence == []<>Quiescent

\* a user action has been followed by its effects and by the answer to the
\* request for the current query string, and the page is at rest
C36_Witness ==
    /\ Quiescent
    /\ userActions >= 1
    /\ lastEvent = "ListResponseOk"
    /\ catalogFor = Some(queryString)
    /\ locationSearch = queryString

====
